---------------------------- MODULE Spec2Model ----------------------------
(***************************************************************************)
(* A model of server.py: the chat server's session registry, broadcast     *)
(* dispatcher, command loop and the upload/download sub-protocols.         *)
(*                                                                         *)
(* One worker (thread) per connection; worker w owns connection w.  An     *)
(* action is one step of a worker between two blocking points (a socket    *)
(* read, a lock acquisition); the client's payloads are the inputs of the  *)
(* step that reads them.  A `with lock:` block that cannot block inside    *)
(* is one step guarded by the lock being free.                             *)
(***************************************************************************)
EXTENDS Integers, Sequences, FiniteSets, TLC

\* ------------------------------------------------------------------ bounds

\* connections accepted in the chat scenarios
NumSessions == 2
\* command payloads read by all command loops together in the chat scenarios
MaxOps == 2
\* connections (already registered) in the file-transfer scenarios
NumFileSessions == 2
\* command payloads read in the scenarios of concurrent file transfers
MaxFileOps == 2
\* command payloads read in the scenarios of file transfers one after the other
MaxSeqOps == 3
\* command payloads read after the first upload in the scenarios that start
\* with a shared file
MaxSharedOps == 2
\* calls of broadcast in the scenarios that take its loop send by send
MaxBroadcasts == 3
\* reads one transfer thread of the GUI client makes at most
MaxReads == 3

\* ------------------------------------------------------- program constants

BUFFER_SIZE == 4096

Max(a, b) == IF a > b THEN a ELSE b
Min(a, b) == IF a < b THEN a ELSE b

Workers == 1..Max(NumSessions, NumFileSessions)
ChatWorkers == 1..NumSessions
FileWorkers == 1..NumFileSessions

\* the uploads, numbered by the command payload that asked for them
Uploads == 1..Max(Max(MaxOps, 1 + MaxSharedOps), Max(MaxFileOps, MaxSeqOps))

\* the value of clients_lock when no thread holds it
NoWorker == 0

\* ------------------------------------------------------------------ inputs

\* the blanks str.strip() removes from both ends of a payload
Whitespace == {" ", "\n"}
\* a payload as it arrives: the words and blanks of one recv, in order
Bare(c) == IF c = "" THEN <<"\n">> ELSE <<c>>
Padded(c) == IF c = "" THEN <<" ", "\n">> ELSE <<" ", c, "\n">>
Payloads(cs) == {Bare(c) : c \in cs} \cup {Padded(c) : c \in cs}

\* first payload of a connection, by its text; "" is a payload of blanks
NameInputs == {"ann", ""}

\* payloads of the command loop, by their text; "" is a payload of blanks
\* an elif chain without the branch of /help
Commands_short == {"/quit", "/users", "/files", "/upload", "/download"}
\* the texts the elif chain of the command loop compares with
Commands == {"/quit", "/users", "/files", "/upload", "/download", "/help"}
ChatCmds == {"/quit", "/users", "/files", "/help", "hello", "/quit now", ""}
FileCmds == {"/upload", "/download"}
SharedCmds == {"/upload", "/download", "hello"}

\* names and declared sizes of the metadata payload "<filename>|<filesize>"
FileNames == {"a.txt", "b.txt"}
\* the names clients upload under; "b.txt" is only ever asked for
UploadNames == {"a.txt"}
\* what datetime.now() may read
Times == {1, 2}
DeclSizes == {-5, 0, 5000}
\* metadata payloads that are not "<filename>|<integer>"
BadMeta == {"nopipe", "a|b|c", "a.txt|xyz"}
\* how many bytes one recv of the data phase may find in the socket
RecvAvail == {BUFFER_SIZE, 2500}
\* answers to "OK|<filesize>"
AckInputs == {"READY", "NO"}

\* ------------------------------------------------------------------- bytes

\* A byte string is a sequence of runs <<src, lo, n>>: the n > 0 bytes
\* lo .. lo+n-1 of the client file src (src >= 1: one file per upload, no two
\* alike), or n zero bytes (src = 0, the hole a write past the end leaves).
\* Adjacent runs that continue each other are merged, so equal strings are
\* equal sequences.

RECURSIVE Size(_)
Size(c) == IF c = <<>> THEN 0 ELSE Head(c)[3] + Size(Tail(c))

RECURSIVE Take(_, _)
Take(c, k) ==
    IF k <= 0 \/ c = <<>> THEN <<>>
    ELSE LET h == Head(c)
         IN  IF h[3] <= k THEN <<h>> \o Take(Tail(c), k - h[3])
             ELSE << <<h[1], h[2], k>> >>

RECURSIVE Drop(_, _)
Drop(c, k) ==
    IF c = <<>> THEN <<>>
    ELSE IF k <= 0 THEN c
    ELSE LET h == Head(c)
         IN  IF h[3] <= k THEN Drop(Tail(c), k - h[3])
             ELSE << <<h[1], (IF h[1] = 0 THEN 0 ELSE h[2] + k), h[3] - k>> >> \o Tail(c)

Cat(c, d) ==
    IF c = <<>> THEN d
    ELSE IF d = <<>> THEN c
    ELSE LET a == c[Len(c)]
             b == Head(d)
         IN  IF a[1] = b[1] /\ (a[1] = 0 \/ a[2] + a[3] = b[2])
             THEN SubSeq(c, 1, Len(c) - 1) \o << <<a[1], a[2], a[3] + b[3]>> >> \o Tail(d)
             ELSE c \o d

Zero(n) == IF n > 0 THEN << <<0, 0, n>> >> ELSE <<>>

\* the bytes lo .. lo+n-1 of the client file src
Bytes(src, lo, n) == IF n > 0 THEN << <<src, lo, n>> >> ELSE <<>>

\* the file c after write(d) at offset pos
WriteAt(c, pos, d) ==
    IF d = <<>> THEN c
    ELSE Cat(Cat(Cat(Take(c, pos), Zero(pos - Size(c))), d), Drop(c, pos + Size(d)))

\* ---------------------------------------------------------------- messages

\* what the server writes to a connection; every message has every field
Msg(t) ==
    [t |-> t, name |-> "", text |-> "", n |-> 0, list |-> <<>>, files |-> <<>>, data |-> <<>>]

NoMsg == Msg("")
PromptMsg == Msg("Enter your name: ")
JoinMsg(nm) == [Msg("joined") EXCEPT !.name = nm]
LeaveMsg(nm) == [Msg("left") EXCEPT !.name = nm]
WelcomeMsg(nm) == [Msg("welcome") EXCEPT !.name = nm]
ByeMsg == Msg("[BYE]")
ChatMsg(ts, nm, txt) == [Msg("chat") EXCEPT !.name = nm, !.text = txt, !.n = ts]
UsersMsg(names) == [Msg("[USERS]") EXCEPT !.list = names]
FilesMsg(recs) == [Msg("[FILES]") EXCEPT !.files = recs]
UploadPromptMsg == Msg("[UPLOAD]")
ReadyMsg == Msg("READY")
ErrorMsg(txt) == [Msg("[ERROR]") EXCEPT !.text = txt]
SuccessMsg(f) == [Msg("[SUCCESS]") EXCEPT !.text = f]
FileMsg(nm, f, n) == [Msg("[FILE]") EXCEPT !.name = nm, !.text = f, !.n = n]
DlErrorMsg(txt) == [Msg("ERROR|") EXCEPT !.text = txt]
DlOkMsg(n) == [Msg("OK|") EXCEPT !.n = n]
DataMsg(d) == [Msg("data") EXCEPT !.data = d]

\* ------------------------------------------------------------------- state

VARIABLES
    pc,            \* pc[w]: where worker w stands in handle_client
    clients,       \* the dict clients, as the sequence of its keys in insertion order
    name,          \* name[w]: client_info["name"] of connection w
    clients_lock,  \* the holder of clients_lock, NoWorker when free
    peer,          \* peer[w]: "open", or "closed" once the client has closed its end
    sclosed,       \* sclosed[w]: conn.close() has been called on connection w
    out,           \* out[w]: what the last step wrote to connection w, NoMsg if nothing
    text,          \* text[w]: the chat text worker w is about to broadcast
    ops,           \* command payloads read so far
    left,          \* left[w]: broadcasts of w's departure notice begun (history)
    regno,         \* regno[w]: w was the regno[w]-th connection to register (history)
    bye,           \* bye[w]: "[BYE] Goodbye!" was written to connection w (history)
    files_shared,  \* the dict files_shared, as the sequence of its items in insertion order
    disk,          \* disk[f]: the inode the path shared_files/f names, 0 when there is none
    inode,         \* inode[i]: the bytes of inode i
    fh,            \* fh[w]: the file object worker w has open
    loc,           \* loc[w]: filename, filesize and received/sent of worker w's transfer
    hist,          \* hist[s]: what became of the upload of client file s (history)
    reg_src,       \* reg_src[f]: the client file whose upload wrote f's FileRecord (history)
    locks,         \* the locks the worker of the last step held at once (most) and held
                   \* while it sent or received on a connection (io)
    timeout,       \* timeout[w]: the timeout set on connection w, None when it has none
    client,        \* the locals of a client's download_file and its output file
    payload,       \* what the last step read as a name or a command: by whom, and the
                   \* payload as it arrived (<<>> is the zero-length read)
    fan,           \* the loops of broadcast taken send by send: the targets each
                   \* still has to serve, and what every session has received
    gui            \* the threads of the GUI client: where each stands, the holder
                   \* of receive_lock, the threads inside sock.recv

vars == <<pc, clients, name, clients_lock, peer, sclosed, out, text, ops, left, regno, bye,
          files_shared, disk, inode, fh, loc, hist, reg_src, locks, timeout, client,
          payload, fan, gui>>

chatVars == <<clients, name, clients_lock, sclosed, left, regno, bye>>
fileVars == <<files_shared, disk, inode, fh, loc, hist, reg_src>>

\* ------------------------------------------------------------------ locks

\* the locks a step held: most, the largest set held at once, and io, those
\* held during a conn.sendall or conn.recv
Held(most, io) == [most |-> most, io |-> io]
NoLocks == Held({}, {})

\* a lock that any thread takes whoever holds it
Free_always(holder) == TRUE
\* threading.Lock: `with lock:` goes on only when no thread holds the lock
Free(holder) == holder = NoWorker

\* `with clients_lock:` and `with files_lock:`
WithClients == {"clients_lock"}
WithFiles == {"files_lock"}

\* conn.settimeout(None) and conn.settimeout(30)
None == 0
FileTimeout == 30

\* no loop of broadcast has begun and no session has received a broadcast
NoFan == [todo |-> [w \in Workers |-> <<>>], msg |-> [w \in Workers |-> 0],
          rcvd |-> [w \in Workers |-> <<>>], n |-> 0]

\* the threads of the GUI client: the receive loop and the two transfers
GuiThreads == {"receive_messages", "_upload_file_thread", "_download_file_thread"}
\* the GUI client once connected: the receive loop at the top of its loop,
\* no transfer asked for, receive_lock free, nobody inside sock.recv
NoGui == [at |-> [t \in GuiThreads |-> IF t = "receive_messages" THEN "top" ELSE "idle"],
          receive_lock |-> "", reading |-> {}, running |-> TRUE, reads |-> 0, how |-> ""]

\* a client that has not asked for a download
NoClient ==
    [kind |-> "", pc |-> "idle", filesize |-> 0, received |-> 0, eof |-> FALSE,
     file |-> [exists |-> FALSE, size |-> 0], verdict |-> ""]

\* ---------------------------------------------------------------- registry

Registered(w) == \E i \in 1..Len(clients) : clients[i] = w

\* a pop that enters the connection when it was absent
Pop_again(cs, w) ==
    IF \E i \in 1..Len(cs) : cs[i] = w
    THEN LET Keep(r) == r # w IN SelectSeq(cs, Keep)
    ELSE Append(cs, w)

\* clients.pop(conn, None)
Pop(cs, w) ==
    LET Keep(r) == r # w IN SelectSeq(cs, Keep)

\* str.strip(): the payload without the blanks at its two ends
RECURSIVE lstrip(_)
lstrip(p) == IF p # <<>> /\ Head(p) \in Whitespace THEN lstrip(Tail(p)) ELSE p
RECURSIVE rstrip(_)
rstrip(p) ==
    IF p # <<>> /\ p[Len(p)] \in Whitespace THEN rstrip(SubSeq(p, 1, Len(p) - 1)) ELSE p
strip_kept(p) == p
strip(p) == rstrip(lstrip(p))
\* the string a stripped payload is; the payloads of the model have one word
Str(p) == IF p = <<>> THEN "" ELSE p[1]

\* no name or command was read, and worker w read the payload p
NoPayload == [by |-> NoWorker, raw |-> <<>>]
Read(w, p) == [by |-> w, raw |-> p]

\* User_<addr>, the name substituted for an empty answer
UserName(w) == <<"User_1", "User_2", "User_3", "User_4", "User_5", "User_6">>[w]

\* a name that stays as it was answered
NameOr_empty(nm, w) == nm
\* if not name: name = f"User_{addr[0]}_{addr[1]}"
NameOr(nm, w) == IF nm = "" THEN UserName(w) ELSE nm

\* [info['name'] for info in clients.values()]
Names(cs) == [i \in 1..Len(cs) |-> name[cs[i]]]

\* --------------------------------------------------------------- transport

\* conn.sendall raises: always on a socket the server closed, possibly when
\* the client closed its end
MustFail(r) == sclosed[r]
CanFail(r) == sclosed[r] \/ peer[r] = "closed"

\* the ways one conn.sendall to r can go: TRUE when it returns, FALSE when it raises
SendWays(r) == {ok \in BOOLEAN : IF ok THEN ~MustFail(r) ELSE CanFail(r)}

\* nothing written, and msg written to connection w only
Quiet == [r \in Workers |-> NoMsg]
Only(w, msg) == [Quiet EXCEPT ![w] = msg]

\* o after msg was written to every connection of the set rs
Deliver(o, rs, msg) == [r \in Workers |-> IF r \in rs THEN msg ELSE o[r]]

\* ---------------------------------------------------------------- broadcast

\* list(clients.keys()) without the excluded connection (NoWorker: None)
Targets(exclude) ==
    LET Keep(r) == r # exclude IN SelectSeq(clients, Keep)

\* the ways the loop of broadcast can go: 0 when every send returns, else
\* the index of the first target whose send raises
Outcomes(exclude) ==
    LET ts == Targets(exclude)
    IN  {i \in 0..Len(ts) :
            /\ i > 0 => CanFail(ts[i])
            /\ \A j \in 1..Len(ts) : (i = 0 \/ j < i) => ~MustFail(ts[j])}

\* the targets served when the loop goes the way i
Served(exclude, i) ==
    LET ts == Targets(exclude)
    IN  {ts[j] : j \in {k \in 1..Len(ts) : i = 0 \/ k < i}}

\* a cleanup that succeeds (as with a reentrant lock): the failed recipient
\* is closed and evicted, and broadcast returns
cleanup_client_evict(w, conn, nextpc) ==
    /\ sclosed' = [sclosed EXCEPT ![conn] = TRUE]
    /\ clients' = Pop(clients, conn)
    /\ pc' = [pc EXCEPT ![w] = nextpc]
    /\ UNCHANGED clients_lock

\* cleanup_client(conn) called by worker w from inside broadcast, which holds
\* clients_lock: conn.close(), then `with clients_lock` on a lock that is not
\* reentrant and that w itself holds; w waits there and keeps the lock
cleanup_client(w, conn, nextpc) ==
    /\ sclosed' = [sclosed EXCEPT ![conn] = TRUE]
    /\ clients_lock' = w
    /\ pc' = [pc EXCEPT ![w] = "cleanup_client"]
    /\ UNCHANGED clients

\* broadcast(msg, exclude) by worker w, its loop going the way i; nextpc is
\* where w stands once broadcast has returned
broadcast(w, msg, exclude, i, nextpc) ==
    /\ Free(clients_lock)
    /\ i \in Outcomes(exclude)
    /\ out' = Deliver(Quiet, Served(exclude, i), msg)
    /\ IF i = 0
         THEN /\ pc' = [pc EXCEPT ![w] = nextpc]
              /\ UNCHANGED <<clients, clients_lock, sclosed>>
         ELSE cleanup_client(w, Targets(exclude)[i], nextpc)

\* the locks of a call of broadcast made while the locks outer are held:
\* clients_lock is taken, and every conn.sendall of the loop is made under it
BroadcastLocks(exclude, outer) ==
    Held(outer \cup WithClients,
         IF Targets(exclude) # <<>> THEN outer \cup WithClients ELSE {})

\* ----------------------------------------------------------- handle_client

\* the states of handle_file_upload and handle_file_download
TransferPcs == {"up_meta", "up_data", "up_end", "up_notify",
                "dl_name", "dl_stat", "dl_size", "dl_ack", "dl_send"}

NoFile == [ino |-> 0, pos |-> 0, buf |-> <<>>]
\* the locals of a transfer: kind is the command, src the number of the command
\* payload that asked for it, ack the answer to "OK|<filesize>", data the
\* file bytes written to the connection so far
NoTransfer ==
    [kind |-> "", src |-> 0, filename |-> "", filesize |-> 0, count |-> 0, ack |-> "",
     data |-> <<>>]
\* what is known of an upload: the worker that ran it, the declared name and
\* size, the time its FileRecord carries (0: none written), and its status:
\* none, active, complete (received == filesize was reached) or failed, and
\* the cause of a failure: timeout (the client stayed silent), eof (it closed
\* before the metadata), reset (recv raised), incomplete (it closed before the
\* last byte), reply (the success reply could not be sent) or the malformed
\* metadata payload
NoUpload ==
    [status |-> "none", by |-> 0, filename |-> "", size |-> 0, at |-> 0, cause |-> ""]

\* server_socket.accept() and the name prompt; connections are numbered in
\* the order they are accepted
Accept(w) ==
    /\ pc[w] = "idle"
    /\ \A v \in Workers : v < w => pc[v] # "idle"
    /\ pc' = [pc EXCEPT ![w] = "name"]
    /\ out' = Only(w, PromptMsg)
    /\ UNCHANGED <<chatVars, fileVars, peer, text, ops>>
    /\ locks' = NoLocks /\ UNCHANGED <<timeout, client, fan, gui>> /\ payload' = NoPayload

\* name = conn.recv(1024).decode().strip(), the fallback for an empty name;
\* on a closed connection recv returns b"" or raises
RecvName(w) ==
    /\ pc[w] = "name"
    /\ \/ /\ peer[w] = "open"
          /\ \E p \in Payloads(NameInputs) :
                /\ name' = [name EXCEPT ![w] = NameOr(Str(strip(p)), w)]
                /\ payload' = Read(w, p)
          /\ pc' = [pc EXCEPT ![w] = "reg"]
       \/ /\ peer[w] = "closed"
          /\ \E raised \in BOOLEAN :
                IF raised
                THEN /\ pc' = [pc EXCEPT ![w] = "finally"]
                     /\ payload' = NoPayload
                     /\ UNCHANGED name
                ELSE /\ name' = [name EXCEPT ![w] = NameOr(Str(strip(<<>>)), w)]
                     /\ payload' = Read(w, <<>>)
                     /\ pc' = [pc EXCEPT ![w] = "reg"]
    /\ out' = Quiet /\ UNCHANGED <<clients, clients_lock, sclosed, left, regno, bye, fileVars, peer, text, ops>>
    /\ locks' = NoLocks /\ UNCHANGED <<timeout, client, fan, gui>>

\* with clients_lock: clients[conn] = client_info
Register(w) ==
    /\ pc[w] = "reg"
    /\ Free(clients_lock)
    /\ clients' = Append(clients, w)
    /\ regno' = [regno EXCEPT ![w] = 1 + Cardinality({v \in Workers : regno[v] > 0})]
    /\ pc' = [pc EXCEPT ![w] = "join"]
    /\ out' = Quiet /\ UNCHANGED <<name, clients_lock, sclosed, left, bye, fileVars, peer, text, ops>>
    /\ locks' = Held(WithClients, {}) /\ UNCHANGED <<timeout, client, fan, gui>> /\ payload' = NoPayload

\* broadcast(join_msg)
Join(w) ==
    /\ pc[w] = "join"
    /\ \E i \in 0..Len(clients) : broadcast(w, JoinMsg(name[w]), NoWorker, i, "welcome")
    /\ UNCHANGED <<name, left, regno, bye, fileVars, peer, text, ops>>
    /\ locks' = BroadcastLocks(NoWorker, {}) /\ UNCHANGED <<timeout, client, fan, gui>> /\ payload' = NoPayload

\* conn.sendall(welcome.encode())
Welcome(w) ==
    /\ pc[w] = "welcome"
    /\ \E ok \in SendWays(w) :
          IF ok
          THEN /\ out' = Only(w, WelcomeMsg(name[w]))
               /\ pc' = [pc EXCEPT ![w] = "loop"]
          ELSE /\ pc' = [pc EXCEPT ![w] = "finally"]
               /\ out' = Quiet
    /\ UNCHANGED <<chatVars, fileVars, peer, text, ops>>
    /\ locks' = NoLocks /\ UNCHANGED <<timeout, client, fan, gui>> /\ payload' = NoPayload

\* send_file_list(conn)
send_file_list == FilesMsg(files_shared)

\* one turn of the main message loop: data = conn.recv(BUFFER_SIZE) and the
\* dispatch of the command; cmds are the payloads the client may send
LoopRecv(w, cmds) ==
    /\ pc[w] = "loop"
    /\ \/ /\ sclosed[w] \/ peer[w] = "closed"
          /\ pc' = [pc EXCEPT ![w] = "finally"]
          /\ out' = Quiet /\ UNCHANGED <<text, ops, loc, hist, bye, timeout>>
          /\ locks' = NoLocks
          /\ payload' = IF sclosed[w] THEN NoPayload ELSE Read(w, <<>>)
       \/ /\ ~sclosed[w] /\ peer[w] = "open"
          /\ ops' = ops + 1
          /\ \E p \in Payloads(cmds) :
             LET c == Str(strip(p)) IN
                /\ payload' = Read(w, p)
                /\ locks' = IF c = "/files" THEN Held(WithFiles, WithFiles) ELSE NoLocks
                /\ timeout' = IF c \in {"/upload", "/download"}
                              THEN [timeout EXCEPT ![w] = FileTimeout]
                              ELSE timeout
                /\ text' = [text EXCEPT ![w] = IF c \in Commands \/ c = "" THEN "" ELSE c]
                /\ loc' = [loc EXCEPT ![w] =
                              IF c \in {"/upload", "/download"}
                              THEN [NoTransfer EXCEPT !.kind = c, !.src = ops + 1]
                              ELSE NoTransfer]
                /\ hist' = IF c = "/upload"
                           THEN [hist EXCEPT ![ops + 1] = [@ EXCEPT !.status = "active", !.by = w]]
                           ELSE hist
                /\ bye' = [bye EXCEPT ![w] = @ \/ c = "/quit"]
                /\ CASE c = "" ->
                          /\ pc' = pc
                          /\ out' = Quiet
                     [] c # "" /\ c \notin Commands ->
                          /\ pc' = [pc EXCEPT ![w] = "chat"]
                          /\ out' = Quiet
                     [] c = "/quit" ->
                          /\ pc' = [pc EXCEPT ![w] = "finally"]
                          /\ out' = Only(w, ByeMsg)
                     [] c = "/users" ->
                          /\ pc' = [pc EXCEPT ![w] = "users"]
                          /\ out' = Quiet
                     [] c = "/files" ->
                          /\ pc' = pc
                          /\ out' = Only(w, send_file_list)
                     [] c = "/upload" ->
                          /\ pc' = [pc EXCEPT ![w] = "up_meta"]
                          /\ out' = Only(w, UploadPromptMsg)
                     [] c = "/download" ->
                          /\ pc' = [pc EXCEPT ![w] = "dl_name"]
                          /\ out' = Quiet
                     [] c = "/help" ->
                          /\ pc' = pc
                          /\ out' = Only(w, WelcomeMsg(name[w]))
    /\ UNCHANGED <<clients, name, clients_lock, sclosed, left, regno, files_shared, disk, inode,
                   fh, reg_src, peer, client, fan, gui>>

\* the users list in the opposite order
users_list_reversed ==
    UsersMsg([i \in 1..Len(clients) |-> name[clients[Len(clients) + 1 - i]]])

\* the reply to /users, written while clients_lock is held
users_list == UsersMsg(Names(clients))

Users(w) ==
    /\ pc[w] = "users"
    /\ Free(clients_lock)
    /\ \E ok \in SendWays(w) :
          IF ok
          THEN /\ out' = Only(w, users_list)
               /\ pc' = [pc EXCEPT ![w] = "loop"]
          ELSE /\ pc' = [pc EXCEPT ![w] = "finally"]
               /\ out' = Quiet
    /\ UNCHANGED <<chatVars, fileVars, peer, text, ops>>
    /\ locks' = Held(WithClients, WithClients) /\ UNCHANGED <<timeout, client, fan, gui>> /\ payload' = NoPayload

\* broadcast(msg) of a chat line, the sender included
Chat(w) ==
    /\ pc[w] = "chat"
    /\ \E i \in 0..Len(clients), ts \in Times :
          broadcast(w, ChatMsg(ts, name[w], text[w]), NoWorker, i, "loop")
    /\ text' = [text EXCEPT ![w] = ""]
    /\ UNCHANGED <<name, left, regno, bye, fileVars, peer, ops>>
    /\ locks' = BroadcastLocks(NoWorker, {}) /\ UNCHANGED <<timeout, client, fan, gui>> /\ payload' = NoPayload

\* finally: client_data = clients.pop(conn, None) under the lock, conn.close()
Finally(w) ==
    /\ pc[w] = "finally"
    /\ Free(clients_lock)
    /\ clients' = Pop(clients, w)
    /\ sclosed' = [sclosed EXCEPT ![w] = TRUE]
    /\ pc' = [pc EXCEPT ![w] = IF Registered(w) THEN "leave" ELSE "done"]
    /\ out' = Quiet /\ UNCHANGED <<name, clients_lock, left, regno, bye, fileVars, peer, text, ops>>
    /\ locks' = Held(WithClients, {}) /\ UNCHANGED <<timeout, client, fan, gui>> /\ payload' = NoPayload

\* if client_data: broadcast(leave_msg)
Leave(w) ==
    /\ pc[w] = "leave"
    /\ Free(clients_lock)
    /\ left' = [left EXCEPT ![w] = @ + 1]
    /\ \E i \in 0..Len(clients) : broadcast(w, LeaveMsg(name[w]), NoWorker, i, "done")
    /\ UNCHANGED <<name, regno, bye, fileVars, peer, text, ops>>
    /\ locks' = BroadcastLocks(NoWorker, {}) /\ UNCHANGED <<timeout, client, fan, gui>> /\ payload' = NoPayload

\* the client closes its end of connection w
ClientClose(w) ==
    /\ pc[w] \notin {"idle", "done"}
    /\ peer[w] = "open"
    /\ peer' = [peer EXCEPT ![w] = "closed"]
    /\ out' = Quiet /\ UNCHANGED <<pc, chatVars, fileVars, text, ops>>
    /\ locks' = NoLocks /\ UNCHANGED <<timeout, client, fan, gui>> /\ payload' = NoPayload

\* -------------------------------------------------------------- file store

Inodes == 1..(Cardinality(FileNames) + Cardinality(Workers))

\* an inode is in use while a path names it or a file object is open on it
InUse(d, h, i) == (\E f \in FileNames : d[f] = i) \/ (\E w \in Workers : h[w].ino = i)

FreshInode == CHOOSE i \in Inodes : ~InUse(disk, fh, i) /\ \A j \in Inodes : j < i => InUse(disk, fh, j)

\* a close that frees every inode no file object is open on, named or not
Reclaim_closed(ino, d, h) ==
    [i \in Inodes |-> IF \E w \in Workers : h[w].ino = i THEN ino[i] ELSE <<>>]

\* the inodes no longer in use are freed
Reclaim(ino, d, h) == [i \in Inodes |-> IF InUse(d, h, i) THEN ino[i] ELSE <<>>]

\* os.path.exists(filepath)
Exists(f) == disk[f] # 0

\* a removal that leaves the file where it is
Remove_kept(d, f) == d

\* os.remove(filepath), guarded by os.path.exists(filepath)
Remove(d, f) == [d EXCEPT ![f] = 0]

\* the inode map after the file object h has written out its buffer
Flushed(ino, h) ==
    IF h.ino = 0 THEN ino ELSE [ino EXCEPT ![h.ino] = WriteAt(@, h.pos, h.buf)]

\* the file object h after f.write(chunk); the buffer is written out now or later
Written(h, chunk) == [h EXCEPT !.buf = Cat(@, chunk)]
AfterFlush(h) == [h EXCEPT !.pos = @ + Size(h.buf), !.buf = <<>>]

InRegistry(f) == \E i \in 1..Len(files_shared) : files_shared[i].filename = f

Record(f) == files_shared[CHOOSE i \in 1..Len(files_shared) : files_shared[i].filename = f]

\* a store that leaves the registry as it was
Store_dropped(fs, rec) == fs

\* a store that takes a name already there out of the registry
Store_toggle(fs, rec) ==
    IF \E i \in 1..Len(fs) : fs[i].filename = rec.filename
    THEN LET Other(r) == r.filename # rec.filename IN SelectSeq(fs, Other)
    ELSE Append(fs, rec)

\* files_shared[filename] = {...}: a new key goes last, an old one keeps its place
Store(fs, rec) ==
    IF \E i \in 1..Len(fs) : fs[i].filename = rec.filename
    THEN [i \in 1..Len(fs) |-> IF fs[i].filename = rec.filename THEN rec ELSE fs[i]]
    ELSE Append(fs, rec)

\* a finally clause that leaves the timeout as it is
ResetTimeout_kept(t, w) == t

\* finally: conn.settimeout(None), at the end of handle_file_upload and of
\* handle_file_download
ResetTimeout(t, w) == [t EXCEPT ![w] = None]

\* -------------------------------------------------------- handle_file_upload

\* the except clauses of handle_file_upload: a reply when it can be sent, the
\* file removed when filepath is set and exists, back to the command loop; ts
\* is the time of the FileRecord when one was written before the failure
UploadAbort(w, f, reply, h, ts, cause) ==
    /\ out' = IF reply = <<>> THEN Quiet ELSE Only(w, reply[1])
    /\ LET d == IF f # "" /\ Exists(f) THEN Remove(disk, f) ELSE disk
           hs == [fh EXCEPT ![w] = NoFile]
       IN  /\ disk' = d
           /\ fh' = hs
           /\ inode' = Reclaim(Flushed(inode, h), d, hs)
    /\ hist' = IF loc[w].count = loc[w].filesize /\ pc[w] = "up_end"
               THEN [hist EXCEPT ![loc[w].src] =
                        [@ EXCEPT !.status = "complete", !.at = ts, !.cause = cause]]
               ELSE [hist EXCEPT ![loc[w].src] = [@ EXCEPT !.status = "failed", !.cause = cause]]
    /\ UNCHANGED loc
    /\ pc' = [pc EXCEPT ![w] = "loop"]
    /\ timeout' = ResetTimeout(timeout, w)

\* parts = metadata.split('|') for the malformed payloads
split(m) ==
    IF m = "nopipe" THEN <<"nopipe">>
    ELSE IF m = "a|b|c" THEN <<"a", "b", "c">>
    ELSE <<"a.txt", "xyz">>

\* a server that answers a malformed payload as it answers a sound one
MetaError_ready(m) == ReadyMsg

\* the reply to a malformed payload: `if len(parts) != 2`, else the
\* ValueError of int(parts[1])
MetaError(m) ==
    IF Len(split(m)) # 2 THEN ErrorMsg("Invalid file metadata")
    ELSE ErrorMsg("Invalid file size")

\* metadata = conn.recv(BUFFER_SIZE) up to open(filepath, 'wb')
UploadMeta(w) ==
    /\ pc[w] = "up_meta"
    /\ \/ \* socket.timeout: the client stays silent
          /\ peer[w] = "open" /\ timeout[w] # None
          /\ UploadAbort(w, "", <<ErrorMsg("Upload timeout")>>, NoFile, 0, "timeout")
          /\ UNCHANGED <<files_shared, reg_src>>
       \/ \* the client closed: recv returns b"" (or raises), the reply may be lost
          /\ peer[w] = "closed"
          /\ \E ok \in BOOLEAN :
                UploadAbort(w, "", IF ok THEN <<ErrorMsg("No metadata received")>> ELSE <<>>,
                            NoFile, 0, "eof")
          /\ UNCHANGED <<files_shared, reg_src>>
       \/ \* len(parts) != 2, or int(parts[1]) raises ValueError
          /\ peer[w] = "open"
          /\ \E m \in BadMeta : UploadAbort(w, "", <<MetaError(m)>>, NoFile, 0, m)
          /\ UNCHANGED <<files_shared, reg_src>>
       \/ \* "<filename>|<filesize>": READY, then the file is created or truncated
          /\ peer[w] = "open"
          /\ \E f \in UploadNames, n \in DeclSizes :
                LET i == IF Exists(f) THEN disk[f] ELSE FreshInode
                    d == [disk EXCEPT ![f] = i]
                    h == [ino |-> i, pos |-> 0, buf |-> <<>>]
                    hs == [fh EXCEPT ![w] = IF n > 0 THEN h ELSE NoFile]
                IN  /\ out' = Only(w, ReadyMsg)
                    /\ disk' = d
                    /\ fh' = hs
                    /\ inode' = Reclaim([inode EXCEPT ![i] = <<>>], d, hs)
                    /\ loc' = [loc EXCEPT ![w] = [@ EXCEPT !.filename = f, !.filesize = n]]
                    /\ hist' = [hist EXCEPT ![loc[w].src] =
                                   [@ EXCEPT !.filename = f, !.size = n]]
                    /\ pc' = [pc EXCEPT ![w] = IF n > 0 THEN "up_data" ELSE "up_end"]
                    /\ timeout' = IF n > 0 THEN timeout ELSE [timeout EXCEPT ![w] = None]
          /\ UNCHANGED <<files_shared, reg_src>>
    /\ UNCHANGED <<chatVars, peer, text, ops>>
    /\ locks' = NoLocks /\ UNCHANGED <<client, fan, gui>> /\ payload' = NoPayload

\* chunk_size = min(BUFFER_SIZE, remaining)
chunk_size(w) == Min(BUFFER_SIZE, loc[w].filesize - loc[w].count)

\* one turn of `while received < filesize`
UploadRecv(w) ==
    /\ pc[w] = "up_data"
    /\ \/ \* chunk = conn.recv(chunk_size); f.write(chunk); received += len(chunk)
          /\ peer[w] = "open"
          /\ \E avail \in RecvAvail, flush \in BOOLEAN :
                LET k == Min(avail, chunk_size(w))
                    chunk == Bytes(loc[w].src, loc[w].count, k)
                    done == loc[w].count + k = loc[w].filesize
                    h == Written(fh[w], chunk)
                    hs == [fh EXCEPT ![w] = IF done THEN NoFile
                                            ELSE IF flush THEN AfterFlush(h) ELSE h]
                IN  /\ flush \/ ~done
                    /\ fh' = hs
                    /\ inode' = Reclaim(IF done \/ flush THEN Flushed(inode, h) ELSE inode,
                                        disk, hs)
                    /\ loc' = [loc EXCEPT ![w].count = @ + k]
                    /\ pc' = [pc EXCEPT ![w] = IF done THEN "up_end" ELSE "up_data"]
                    /\ timeout' = IF done THEN [timeout EXCEPT ![w] = None] ELSE timeout
          /\ out' = Quiet /\ UNCHANGED <<disk, hist>>
       \/ \* not chunk: the client closed; break, the file is closed
          /\ peer[w] = "closed"
          /\ fh' = [fh EXCEPT ![w] = NoFile]
          /\ inode' = Reclaim(Flushed(inode, fh[w]), disk, fh')
          /\ pc' = [pc EXCEPT ![w] = "up_end"]
          /\ timeout' = [timeout EXCEPT ![w] = None]
          /\ out' = Quiet /\ UNCHANGED <<disk, loc, hist>>
       \/ \* socket.timeout: the client stays silent
          /\ peer[w] = "open" /\ timeout[w] # None
          /\ UploadAbort(w, loc[w].filename, <<ErrorMsg("Upload timeout")>>, fh[w], 0, "timeout")
       \/ \* recv raises on the closed connection
          /\ peer[w] = "closed"
          /\ UploadAbort(w, loc[w].filename, <<>>, fh[w], 0, "reset")
    /\ UNCHANGED <<chatVars, files_shared, reg_src, peer, text, ops>>
    /\ locks' = NoLocks /\ UNCHANGED <<client, fan, gui>> /\ payload' = NoPayload

\* the FileRecord of worker w's upload
FileRecord(w, ts) ==
    [filename |-> loc[w].filename, uploader |-> name[w], timestamp |-> ts,
     size |-> loc[w].filesize]

\* after the loop: `if received == filesize` ... `else` ...
UploadEnd(w) ==
    /\ pc[w] = "up_end"
    /\ IF loc[w].count = loc[w].filesize
       THEN \E ts \in Times :
               /\ files_shared' = Store(files_shared, FileRecord(w, ts))
               /\ reg_src' = [reg_src EXCEPT ![loc[w].filename] = loc[w].src]
               /\ \E ok \in SendWays(w) :
                     IF ok
                     THEN /\ out' = Only(w, SuccessMsg(loc[w].filename))
                          /\ pc' = [pc EXCEPT ![w] = "up_notify"]
                          /\ hist' = [hist EXCEPT ![loc[w].src] =
                                         [@ EXCEPT !.status = "complete", !.at = ts]]
                          /\ UNCHANGED <<disk, inode, fh, loc, timeout>>
                     ELSE UploadAbort(w, loc[w].filename, <<>>, NoFile, ts, "reply")
       ELSE /\ UNCHANGED <<files_shared, reg_src>>
            /\ \E ok \in SendWays(w) :
                  UploadAbort(w, loc[w].filename,
                              IF ok THEN <<ErrorMsg("File upload incomplete")>> ELSE <<>>,
                              NoFile, 0, "incomplete")
    /\ locks' = IF loc[w].count = loc[w].filesize THEN Held(WithFiles, {}) ELSE NoLocks
    /\ UNCHANGED <<chatVars, peer, text, ops, client, fan, gui>> /\ payload' = NoPayload

\* a notification sent from inside `with files_lock`
NotifyScope_inside == WithFiles

\* the locks held where broadcast(notification, exclude=conn) is called: the
\* `with files_lock` block has ended
NotifyScope == {}

\* broadcast(notification, exclude=conn)
UploadNotify(w) ==
    /\ pc[w] = "up_notify"
    /\ \E i \in 0..Len(clients) :
          broadcast(w, FileMsg(name[w], loc[w].filename, loc[w].filesize), w, i, "loop")
    /\ locks' = BroadcastLocks(w, NotifyScope)
    /\ timeout' = ResetTimeout(timeout, w)
    /\ UNCHANGED <<name, left, regno, bye, fileVars, peer, text, ops, client, fan, gui>> /\ payload' = NoPayload

\* ------------------------------------------------------ handle_file_download

\* return from handle_file_download, with the reply sent if there is one
DownloadReturn(w, reply) ==
    /\ out' = IF reply = <<>> THEN Quiet ELSE Only(w, reply[1])
    /\ fh' = [fh EXCEPT ![w] = NoFile]
    /\ inode' = Reclaim(inode, disk, fh')
    /\ pc' = [pc EXCEPT ![w] = "loop"]
    /\ timeout' = ResetTimeout(timeout, w)

\* a check of the storage directory in place of the registry
Downloadable_storage(f) == Exists(f)

\* `filename in files_shared`, the condition to go on with a download
Downloadable(f) == InRegistry(f)

\* filename = conn.recv(BUFFER_SIZE) and `if filename not in files_shared`
DownloadName(w) ==
    /\ pc[w] = "dl_name"
    /\ \/ \* socket.timeout, or b"" from a closed connection: no reply
          /\ timeout[w] # None \/ peer[w] = "closed"
          /\ DownloadReturn(w, <<>>)
          /\ locks' = NoLocks
          /\ UNCHANGED loc
       \/ /\ peer[w] = "open"
          /\ \E f \in FileNames :
                IF ~Downloadable(f)
                THEN /\ DownloadReturn(w, <<DlErrorMsg("File not found")>>)
                     /\ locks' = Held(WithFiles, WithFiles)
                     /\ loc' = [loc EXCEPT ![w].filename = f]
                ELSE /\ loc' = [loc EXCEPT ![w].filename = f]
                     /\ locks' = Held(WithFiles, {})
                     /\ pc' = [pc EXCEPT ![w] = "dl_stat"]
                     /\ out' = Quiet /\ UNCHANGED <<fh, inode, timeout>>
    /\ UNCHANGED <<chatVars, files_shared, disk, hist, reg_src, peer, text, ops, client, fan, gui>> /\ payload' = NoPayload

\* os.path.getsize(filepath)
getsize(f) == Size(inode[disk[f]])

\* a check of the storage that never finds a file missing
Missing_never(f) == FALSE

\* `not os.path.exists(filepath)`, the condition to refuse a registered name
Missing(f) == ~Exists(f)

\* `if not os.path.exists(filepath)` and the reply "ERROR|File not found on
\* server"
DownloadStat(w) ==
    /\ pc[w] = "dl_stat"
    /\ IF Missing(loc[w].filename)
       THEN \E ok \in SendWays(w) :
               DownloadReturn(w, IF ok THEN <<DlErrorMsg("File not found on server")>>
                                 ELSE <<>>)
       ELSE /\ pc' = [pc EXCEPT ![w] = "dl_size"]
            /\ out' = Quiet /\ UNCHANGED <<fh, inode, timeout>>
    /\ UNCHANGED <<chatVars, files_shared, disk, hist, reg_src, loc, peer, text, ops>>
    /\ locks' = NoLocks /\ UNCHANGED <<client, fan, gui>> /\ payload' = NoPayload

\* filesize = os.path.getsize(filepath), which raises when the file is gone
\* by now, and the reply "OK|<filesize>"
DownloadSize(w) ==
    /\ pc[w] = "dl_size"
    /\ \E ok \in SendWays(w) :
          IF ~ok \/ ~Exists(loc[w].filename)
          THEN DownloadReturn(w, <<>>) /\ UNCHANGED loc
          ELSE /\ out' = Only(w, DlOkMsg(getsize(loc[w].filename)))
               /\ loc' = [loc EXCEPT ![w].filesize = getsize(loc[w].filename)]
               /\ pc' = [pc EXCEPT ![w] = "dl_ack"]
               /\ UNCHANGED <<fh, inode, timeout>>
    /\ UNCHANGED <<chatVars, files_shared, disk, hist, reg_src, peer, text, ops>>
    /\ locks' = NoLocks /\ UNCHANGED <<client, fan, gui>> /\ payload' = NoPayload

\* an acknowledgment check that lets any answer pass
Acknowledged_any(ack) == TRUE

\* `ack == b"READY"`, the condition to send the file
Acknowledged(ack) == ack = "READY"

\* ack = conn.recv(BUFFER_SIZE), `if ack != b"READY"`, open(filepath, 'rb')
DownloadAck(w) ==
    /\ pc[w] = "dl_ack"
    /\ \/ \* socket.timeout, or b"" from a closed connection
          /\ timeout[w] # None \/ peer[w] = "closed"
          /\ DownloadReturn(w, <<>>)
          /\ loc' = [loc EXCEPT ![w].ack = "none"]
       \/ /\ peer[w] = "open"
          /\ \E ack \in AckInputs :
                IF ~Acknowledged(ack) \/ ~Exists(loc[w].filename) \/ loc[w].filesize = 0
                THEN /\ DownloadReturn(w, <<>>)
                     /\ loc' = [loc EXCEPT ![w].ack = ack]
                ELSE /\ fh' = [fh EXCEPT ![w] = [NoFile EXCEPT !.ino = disk[loc[w].filename]]]
                     /\ loc' = [loc EXCEPT ![w].ack = ack]
                     /\ pc' = [pc EXCEPT ![w] = "dl_send"]
                     /\ timeout' = [timeout EXCEPT ![w] = None]
                     /\ out' = Quiet /\ UNCHANGED <<inode>>
    /\ UNCHANGED <<chatVars, files_shared, disk, hist, reg_src, peer, text, ops>>
    /\ locks' = NoLocks /\ UNCHANGED <<client, fan, gui>> /\ payload' = NoPayload

\* chunk = f.read(BUFFER_SIZE): the bytes of the file from the position on
read(h) == Take(Drop(inode[h.ino], h.pos), BUFFER_SIZE)

\* one turn of `while sent < filesize`
DownloadSend(w) ==
    /\ pc[w] = "dl_send"
    /\ LET chunk == read(fh[w])
           sent == loc[w].count + Size(chunk)
       IN  \E ok \in SendWays(w) :
              IF chunk = <<>> \/ ~ok THEN DownloadReturn(w, <<>>) /\ UNCHANGED loc
              ELSE IF sent < loc[w].filesize
              THEN /\ out' = Only(w, DataMsg(chunk))
                   /\ fh' = [fh EXCEPT ![w].pos = @ + Size(chunk)]
                   /\ loc' = [loc EXCEPT ![w].count = sent, ![w].data = Cat(@, chunk)]
                   /\ UNCHANGED <<pc, inode, timeout>>
              ELSE /\ DownloadReturn(w, <<DataMsg(chunk)>>)
                   /\ loc' = [loc EXCEPT ![w].count = sent, ![w].data = Cat(@, chunk)]
    /\ UNCHANGED <<chatVars, files_shared, disk, hist, reg_src, peer, text, ops>>
    /\ locks' = NoLocks /\ UNCHANGED <<client, fan, gui>> /\ payload' = NoPayload

\* ---------------------------------------------------------- specifications

\* the server after start-up: no connection, an empty storage directory
Init ==
    /\ pc = [w \in Workers |-> "idle"]
    /\ clients = <<>>
    /\ name = [w \in Workers |-> ""]
    /\ clients_lock = NoWorker
    /\ peer = [w \in Workers |-> "open"]
    /\ sclosed = [w \in Workers |-> FALSE]
    /\ out = [w \in Workers |-> NoMsg]
    /\ text = [w \in Workers |-> ""]
    /\ ops = 0
    /\ left = [w \in Workers |-> 0]
    /\ regno = [w \in Workers |-> 0]
    /\ bye = [w \in Workers |-> FALSE]
    /\ files_shared = <<>>
    /\ disk = [f \in FileNames |-> 0]
    /\ inode = [i \in Inodes |-> <<>>]
    /\ fh = [w \in Workers |-> NoFile]
    /\ loc = [w \in Workers |-> NoTransfer]
    /\ hist = [s \in Uploads |-> NoUpload]
    /\ reg_src = [f \in FileNames |-> 0]
    /\ locks = NoLocks
    /\ timeout = [w \in Workers |-> None]
    /\ client = NoClient
    /\ payload = NoPayload
    /\ fan = NoFan
    /\ gui = NoGui

\* the payloads a client may still send: cmds while fewer than max were read
Budget(cmds, max) == IF ops < max THEN cmds ELSE {}

\* the chat server: sessions come, talk and go
Next ==
    \E w \in ChatWorkers :
        \/ Accept(w)
        \/ RecvName(w)
        \/ Register(w)
        \/ Join(w)
        \/ Welcome(w)
        \/ LoopRecv(w, Budget(ChatCmds, MaxOps))
        \/ Users(w)
        \/ Chat(w)
        \/ Finally(w)
        \/ Leave(w)
        \/ ClientClose(w)

Spec == Init /\ [][Next]_vars

\* the name session w gave in the file-transfer scenarios
SessionName(w) == IF w % 2 = 1 THEN "ann" ELSE "bob"

\* the sessions 1 .. NumFileSessions have joined in turn, each has read its
\* welcome text and waits in the command loop
InitFile ==
    /\ pc = [w \in Workers |-> IF w \in FileWorkers THEN "loop" ELSE "idle"]
    /\ clients = [w \in FileWorkers |-> w]
    /\ name = [w \in Workers |-> IF w \in FileWorkers THEN SessionName(w) ELSE ""]
    /\ clients_lock = NoWorker
    /\ peer = [w \in Workers |-> "open"]
    /\ sclosed = [w \in Workers |-> FALSE]
    /\ out = [w \in Workers |-> IF w \in FileWorkers THEN WelcomeMsg(SessionName(w)) ELSE NoMsg]
    /\ text = [w \in Workers |-> ""]
    /\ ops = 0
    /\ left = [w \in Workers |-> 0]
    /\ regno = [w \in Workers |-> IF w \in FileWorkers THEN w ELSE 0]
    /\ bye = [w \in Workers |-> FALSE]
    /\ files_shared = <<>>
    /\ disk = [f \in FileNames |-> 0]
    /\ inode = [i \in Inodes |-> <<>>]
    /\ fh = [w \in Workers |-> NoFile]
    /\ loc = [w \in Workers |-> NoTransfer]
    /\ hist = [s \in Uploads |-> NoUpload]
    /\ reg_src = [f \in FileNames |-> 0]
    /\ locks = NoLocks
    /\ timeout = [w \in Workers |-> None]
    /\ client = NoClient
    /\ payload = NoPayload
    /\ fan = NoFan
    /\ gui = NoGui

Transfer(w) ==
    \/ UploadMeta(w)
    \/ UploadRecv(w)
    \/ UploadEnd(w)
    \/ UploadNotify(w)
    \/ DownloadName(w)
    \/ DownloadStat(w)
    \/ DownloadSize(w)
    \/ DownloadAck(w)
    \/ DownloadSend(w)

\* file transfers of sessions that act concurrently
NextFile ==
    \E w \in FileWorkers :
          \/ LoopRecv(w, Budget(FileCmds, MaxFileOps))
          \/ Transfer(w)
          \/ Finally(w)
          \/ Leave(w)
          \/ ClientClose(w)

SpecFile == InitFile /\ [][NextFile]_vars

\* some session is inside handle_file_upload or handle_file_download
Busy == \E w \in Workers : pc[w] \in TransferPcs

\* file transfers one after the other: a client asks for a transfer only
\* while no transfer is under way
NextSeq ==
    \E w \in FileWorkers :
          \/ LoopRecv(w, IF Busy THEN {} ELSE Budget(FileCmds, MaxSeqOps))
          \/ Transfer(w)
          \/ Finally(w)
          \/ Leave(w)
          \/ ClientClose(w)

SpecSeq == InitFile /\ [][NextSeq]_vars

\* the first session has uploaded the 5000 bytes of a.txt, got its success
\* reply and the others their notification; all wait in the command loop
InitShared ==
    /\ pc = [w \in Workers |-> IF w \in FileWorkers THEN "loop" ELSE "idle"]
    /\ clients = [w \in FileWorkers |-> w]
    /\ name = [w \in Workers |-> IF w \in FileWorkers THEN SessionName(w) ELSE ""]
    /\ clients_lock = NoWorker
    /\ peer = [w \in Workers |-> "open"]
    /\ sclosed = [w \in Workers |-> FALSE]
    /\ out = Deliver(Quiet, FileWorkers \ {1}, FileMsg(SessionName(1), "a.txt", 5000))
    /\ text = [w \in Workers |-> ""]
    /\ ops = 1
    /\ left = [w \in Workers |-> 0]
    /\ regno = [w \in Workers |-> IF w \in FileWorkers THEN w ELSE 0]
    /\ bye = [w \in Workers |-> FALSE]
    /\ files_shared = <<[filename |-> "a.txt", uploader |-> SessionName(1), timestamp |-> 1,
                         size |-> 5000]>>
    /\ disk = [f \in FileNames |-> IF f = "a.txt" THEN 1 ELSE 0]
    /\ inode = [i \in Inodes |-> IF i = 1 THEN Bytes(1, 0, 5000) ELSE <<>>]
    /\ fh = [w \in Workers |-> NoFile]
    /\ loc = [w \in Workers |->
                IF w = 1 THEN [NoTransfer EXCEPT !.kind = "/upload", !.src = 1,
                                                 !.filename = "a.txt", !.filesize = 5000,
                                                 !.count = 5000]
                ELSE NoTransfer]
    /\ hist = [s \in Uploads |->
                 IF s = 1 THEN [NoUpload EXCEPT !.status = "complete", !.by = 1,
                                                !.filename = "a.txt", !.size = 5000, !.at = 1]
                 ELSE NoUpload]
    /\ reg_src = [f \in FileNames |-> IF f = "a.txt" THEN 1 ELSE 0]
    /\ locks = NoLocks
    /\ timeout = [w \in Workers |-> None]
    /\ client = NoClient
    /\ payload = NoPayload
    /\ fan = NoFan
    /\ gui = NoGui

\* sessions that chat and transfer files concurrently once a file is shared
NextShared ==
    \E w \in FileWorkers :
          \/ LoopRecv(w, Budget(SharedCmds, 1 + MaxSharedOps))
          \/ Transfer(w)
          \/ Chat(w)
          \/ Finally(w)
          \/ Leave(w)
          \/ ClientClose(w)

SpecShared == InitShared /\ [][NextShared]_vars

\* ------------------------------------------- broadcast, one send at a time

\* what broadcast is called with by worker w: no exclude (chat, join and
\* leave lines) or its own connection (the upload notification)
Excludes(w) == {NoWorker, w}

\* the broadcast line number k, sent on behalf of worker w
FanMsg(w, k) == [Msg("chat") EXCEPT !.name = name[w], !.n = k]

\* a worker in its command loop calls broadcast: `with clients_lock:` is
\* entered and list(clients.keys()) is taken
FanBegin(w) ==
    /\ pc[w] = "loop" /\ ~sclosed[w] /\ peer[w] = "open"
    /\ fan.n < MaxBroadcasts
    /\ Free(clients_lock)
    /\ clients_lock' = w
    /\ \E exclude \in Excludes(w) :
          fan' = [fan EXCEPT !.todo[w] = Targets(exclude), !.msg[w] = fan.n + 1,
                             !.n = fan.n + 1]
    /\ pc' = [pc EXCEPT ![w] = "fanout"]
    /\ out' = Quiet
    /\ locks' = Held(WithClients, {})
    /\ UNCHANGED <<clients, name, sclosed, left, regno, bye, fileVars, peer, text, ops,
                   timeout, client, payload, gui>>

\* one turn of `for conn in list(clients.keys())`: conn.sendall(msg), and
\* cleanup_client(conn) when it raises
FanSend(w) ==
    /\ pc[w] = "fanout" /\ fan.todo[w] # <<>>
    /\ LET r == Head(fan.todo[w])
       IN  \E ok \in SendWays(r) :
              IF ok
              THEN /\ fan' = [fan EXCEPT !.todo[w] = Tail(@),
                                         !.rcvd[r] = Append(@, fan.msg[w])]
                   /\ out' = Only(r, FanMsg(w, fan.msg[w]))
                   /\ UNCHANGED <<pc, clients, clients_lock, sclosed>>
              ELSE /\ cleanup_client(w, r, "fanout")
                   /\ out' = Quiet
                   /\ UNCHANGED fan
    /\ locks' = Held(WithClients, WithClients)
    /\ UNCHANGED <<name, left, regno, bye, fileVars, peer, text, ops, timeout, client,
                   payload, gui>>

\* the loop is over: the `with clients_lock` block ends and broadcast returns
FanEnd(w) ==
    /\ pc[w] = "fanout" /\ fan.todo[w] = <<>>
    /\ clients_lock' = NoWorker
    /\ pc' = [pc EXCEPT ![w] = "loop"]
    /\ out' = Quiet
    /\ locks' = Held(WithClients, {})
    /\ UNCHANGED <<clients, name, sclosed, left, regno, bye, fileVars, peer, text, ops,
                   timeout, client, payload, fan, gui>>

\* registered sessions whose workers call broadcast concurrently
NextOrder ==
    \E w \in FileWorkers :
          \/ FanBegin(w)
          \/ FanSend(w)
          \/ FanEnd(w)
          \/ ClientClose(w)

SpecOrder == InitFile /\ [][NextOrder]_vars

\* ------------------------------------------------------------ the clients
\* the GUI client: receive_messages and the two transfer threads share the
\* socket and self.receive_lock

\* everything but the threads of the GUI client
besideGui == <<pc, clients, name, clients_lock, peer, sclosed, out, text, ops, left, regno,
               bye, files_shared, disk, inode, fh, loc, hist, reg_src, locks, timeout,
               client, payload, fan>>

TransferThreads == {"_upload_file_thread", "_download_file_thread"}
\* self.receive_lock when no thread holds it
Unlocked == ""

\* a block that is left with the lock still held
Release_kept(g) == g
\* self.receive_lock.release(), and the end of `with self.receive_lock:`
Release(g) == [g EXCEPT !.receive_lock = Unlocked]

\* `if self.receive_lock.acquire(blocking=False):` at the top of the loop of
\* receive_messages: into sock.recv with the lock, or to time.sleep(0.1)
GuiTry ==
    /\ gui.at["receive_messages"] = "top" /\ gui.running
    /\ gui' = IF gui.receive_lock = Unlocked
              THEN [gui EXCEPT !.at["receive_messages"] = "recv",
                               !.receive_lock = "receive_messages",
                               !.reading = @ \cup {"receive_messages"}]
              ELSE [gui EXCEPT !.at["receive_messages"] = "sleep"]
    /\ UNCHANGED besideGui

\* time.sleep(0.1) is over
GuiWake ==
    /\ gui.at["receive_messages"] = "sleep"
    /\ gui' = [gui EXCEPT !.at["receive_messages"] = "top"]
    /\ UNCHANGED besideGui

\* the ways a sock.recv of receive_messages ends
LoopResults == {"data", "timeout", "eof", "error"}

\* sock.recv of receive_messages returns or raises: the finally clause
\* releases the lock; the loop goes on after data and after a timeout
GuiLoopReturn ==
    /\ gui.at["receive_messages"] = "recv"
    /\ \E res \in LoopResults :
          gui' = Release([gui EXCEPT
                     !.reading = @ \ {"receive_messages"},
                     !.running = @ /\ res \in {"data", "timeout"},
                     !.at["receive_messages"] =
                         IF res \in {"data", "timeout"} THEN "top" ELSE "end"])
    /\ UNCHANGED besideGui

\* the user asks for an upload or a download: the thread is started
GuiStart(t) ==
    /\ gui.at[t] = "idle"
    /\ gui' = [gui EXCEPT !.at[t] = "with"]
    /\ UNCHANGED besideGui

\* `with self.receive_lock:` is entered
GuiEnter(t) ==
    /\ gui.at[t] = "with"
    /\ gui.receive_lock = Unlocked
    /\ gui' = [gui EXCEPT !.at[t] = "send", !.receive_lock = t, !.reads = 0]
    /\ UNCHANGED besideGui

\* the thread has sent its part and calls self.sock.recv
GuiRead(t) ==
    /\ gui.at[t] = "send"
    /\ gui' = [gui EXCEPT !.at[t] = "recv", !.reading = @ \cup {t}]
    /\ UNCHANGED besideGui

\* the ways a transfer thread leaves its `with` block: an early return after
\* an unexpected answer, socket.timeout, another exception, the end of the
\* block
Exits == {"return", "timeout", "error", "end"}

\* self.sock.recv of a transfer thread returns or raises: the thread goes on
\* to its next read, or leaves the `with` block
GuiReadReturn(t) ==
    /\ gui.at[t] = "recv"
    /\ \/ /\ gui.reads + 1 < MaxReads
          /\ gui' = [gui EXCEPT !.at[t] = "send", !.reading = @ \ {t}, !.reads = @ + 1]
       \/ \E how \in Exits :
             gui' = Release([gui EXCEPT !.at[t] = "idle", !.reading = @ \ {t},
                                        !.reads = 0, !.how = how])
    /\ UNCHANGED besideGui

NextGui ==
    \/ GuiTry
    \/ GuiWake
    \/ GuiLoopReturn
    \/ \E t \in TransferThreads :
          \/ GuiStart(t)
          \/ GuiEnter(t)
          \/ GuiRead(t)
          \/ GuiReadReturn(t)

SpecGui == InitFile /\ [][NextGui]_vars


\* the client programs: client_console.py and client_gui.py
ClientKinds == {"console", "gui"}

\* what the client reads as the answer to its request: the two replies of the
\* server, an end of stream, or bytes that are neither reply
Responses == {"ERROR|", "OK|", "", "other"}

\* the sizes a server advertises, and the bytes one recv of the client finds
AdvertisedSizes == {0, 5000, 10000}
ClientAvail == {BUFFER_SIZE, 2500, 1000}

\* the server variables while a client downloads: they play no part
serverVars == <<pc, clients, name, clients_lock, peer, sclosed, out, text, ops, left, regno,
                bye, files_shared, disk, inode, fh, loc, hist, reg_src, locks, timeout,
                payload, fan, gui>>

\* send "/download" and the filename, then wait for the response
ClientRequest ==
    /\ client.pc = "idle" /\ client.kind \in ClientKinds
    /\ client' = [client EXCEPT !.pc = "response"]
    /\ UNCHANGED serverVars

\* response = sock.recv(BUFFER_SIZE): an ERROR reply or an invalid response
\* ends the download; after "OK|<filesize>" the client sends READY and opens
\* the output file with 'wb'
ClientResponse ==
    /\ client.pc = "response"
    /\ \E r \in Responses, n \in AdvertisedSizes :
          client' =
             IF r = "ERROR|" THEN [client EXCEPT !.pc = "done", !.verdict = "error"]
             ELSE IF r # "OK|" THEN [client EXCEPT !.pc = "done", !.verdict = "invalid"]
             ELSE [client EXCEPT !.pc = IF n > 0 THEN "recv" ELSE "check",
                                 !.filesize = n, !.received = 0,
                                 !.file = [exists |-> TRUE, size |-> 0]]
    /\ UNCHANGED serverVars

\* one turn of `while received < filesize`: a chunk of at most
\* min(BUFFER_SIZE, filesize - received) bytes is written and counted, an
\* empty chunk (end of stream) breaks the loop, an exception of recv ends
\* download_file in its handler with the file as it is; bytes that the thread
\* receive_messages of the console client takes from the same socket never
\* reach this loop, which then meets the end of stream with fewer bytes
ClientRecv ==
    /\ client.pc = "recv"
    /\ \/ \E avail \in ClientAvail :
             LET k == Min(avail, Min(BUFFER_SIZE, client.filesize - client.received))
             IN  client' = [client EXCEPT
                               !.received = @ + k,
                               !.file = [exists |-> TRUE, size |-> client.file.size + k],
                               !.pc = IF client.received + k = client.filesize
                                      THEN "check" ELSE "recv"]
       \/ client' = [client EXCEPT !.pc = "check", !.eof = TRUE]
       \/ client' = [client EXCEPT !.pc = "done", !.verdict = "failed"]
    /\ UNCHANGED serverVars

\* `if os.path.exists(filepath): os.remove(filepath)` of the console client
Discard(f) == [exists |-> FALSE, size |-> 0]

\* after the loop: `if received == filesize` the file is saved, else the
\* download is incomplete; the console client then removes the file, the GUI
\* client only displays the error
ClientCheck ==
    /\ client.pc = "check"
    /\ client' =
          IF client.received = client.filesize
          THEN [client EXCEPT !.pc = "done", !.verdict = "saved"]
          ELSE [client EXCEPT !.pc = "done", !.verdict = "incomplete",
                              !.file = IF client.kind = "console" THEN Discard(@) ELSE @]
    /\ UNCHANGED serverVars

\* the user asks for the next download
ClientAgain ==
    /\ client.pc = "done"
    /\ client.verdict \in {"saved", "incomplete"}
    /\ client' = [client EXCEPT !.pc = "idle", !.verdict = "", !.eof = FALSE,
                                !.filesize = 0, !.received = 0]
    /\ UNCHANGED serverVars

\* a client program in front of a server whose sessions wait in their loops
InitClient ==
    /\ client \in {[NoClient EXCEPT !.kind = k] : k \in ClientKinds}
    /\ payload = NoPayload
    /\ fan = NoFan
    /\ gui = NoGui
    /\ pc = [w \in Workers |-> IF w \in FileWorkers THEN "loop" ELSE "idle"]
    /\ clients = [w \in FileWorkers |-> w]
    /\ name = [w \in Workers |-> IF w \in FileWorkers THEN SessionName(w) ELSE ""]
    /\ clients_lock = NoWorker
    /\ peer = [w \in Workers |-> "open"]
    /\ sclosed = [w \in Workers |-> FALSE]
    /\ out = Quiet
    /\ text = [w \in Workers |-> ""]
    /\ ops = 0
    /\ left = [w \in Workers |-> 0]
    /\ regno = [w \in Workers |-> IF w \in FileWorkers THEN w ELSE 0]
    /\ bye = [w \in Workers |-> FALSE]
    /\ files_shared = <<>>
    /\ disk = [f \in FileNames |-> 0]
    /\ inode = [i \in Inodes |-> <<>>]
    /\ fh = [w \in Workers |-> NoFile]
    /\ loc = [w \in Workers |-> NoTransfer]
    /\ hist = [s \in Uploads |-> NoUpload]
    /\ reg_src = [f \in FileNames |-> 0]
    /\ locks = NoLocks
    /\ timeout = [w \in Workers |-> None]

NextClient ==
    \/ ClientRequest
    \/ ClientResponse
    \/ ClientRecv
    \/ ClientCheck
    \/ ClientAgain

SpecClient == InitClient /\ [][NextClient]_vars

\* ------------------------------------------------- the broadcast dispatcher

\* the steps of handle_client that take clients_lock
LockPcs == {"reg", "join", "users", "chat", "finally", "leave", "up_notify"}

\* C3: a send failure on a recipient during broadcast evicts that recipient
\* from the Session Registry and closes its connection, and broadcast returns
\* to its caller: no worker is left waiting inside broadcast, and no
\* connection the server has closed is still registered.
C3_BroadcastEvictsAndReturns ==
    /\ \A w \in Workers : pc[w] # "cleanup_client"
    /\ \A r \in Workers : sclosed[r] => ~Registered(r)

\* C4: every failure is scoped to the connection that triggered it: a worker
\* whose own connection is sound (the client has not closed it, the server
\* has not closed it) never hangs in broadcast and never waits for
\* clients_lock while a hung worker holds it, so that it can still register,
\* broadcast, list the users, announce a file and exit.
C4_FailuresScoped ==
    \A w \in Workers :
        (peer[w] = "open" /\ ~sclosed[w]) =>
            /\ pc[w] # "cleanup_client"
            /\ pc[w] \in LockPcs => clients_lock = NoWorker

\* ---------------------------------------------------- the session registry

\* where a worker stands between the registration and the end of its command
\* loop, and where it stands before the name is read or after it deregistered
InSession == {"join", "welcome", "loop", "users", "chat"} \cup TransferPcs
OutOfSession == {"idle", "name", "leave", "done"}

C6_QuitRemovesAndAnnounces ==
    \A w \in Workers :
        bye[w] =>
            /\ pc[w] \in {"finally", "leave"} => clients_lock = NoWorker
            /\ pc[w] # "cleanup_client"
            /\ pc[w] = "done" => ~Registered(w) /\ left[w] = 1
            /\ left[w] <= 1

\* the place of v among the registered sessions, in the order they registered
Rank(v) == Cardinality({u \in Workers : Registered(u) /\ regno[u] <= regno[v]})

\* C10: the reply to /users, given while k sessions are registered, lists
\* exactly k names, the name of each registered session at the place of its
\* registration, whichever session asked.
C10_UsersInRegistrationOrder ==
    \A w \in Workers :
        out[w].t = "[USERS]" =>
            /\ Len(out[w].list) = Cardinality({v \in Workers : Registered(v)})
            /\ \A v \in Workers : Registered(v) => out[w].list[Rank(v)] = name[v]

\* the session accepted first registered second, asked, and got two different
\* names, its own last
C10_Witness ==
    /\ out[1].t = "[USERS]"
    /\ regno[1] = 2 /\ regno[2] = 1
    /\ Len(out[1].list) = 2
    /\ out[1].list[1] # out[1].list[2]
    /\ out[1].list[2] = name[1]

\* ------------------------------------------------------- the file transfers

\* the client files that have bytes in the byte string c
Sources(c) == {c[i][1] : i \in 1..Len(c)}

\* the bytes stored under the name f
Stored(f) == IF Exists(f) THEN inode[disk[f]] ELSE <<>>

\* the uploads under the name f asked for before the command d, and those of
\* them that reached received == filesize
Attempts(f, d) == {s \in Uploads : s < d /\ hist[s].filename = f}
Completed(f, d) == {s \in Attempts(f, d) : hist[s].status = "complete"}

\* the latest of a set of uploads, 0 when there is none
Last(S) == IF S = {} THEN 0 ELSE CHOOSE s \in S : \A t \in S : t <= s

\* the download of f that worker w ran last is over, and its client played
\* its part: it named f, answered READY if it was asked to, and kept the
\* connection
Answered(w, f) ==
    /\ pc[w] = "loop"
    /\ loc[w].kind = "/download" /\ loc[w].filename = f
    /\ peer[w] = "open" /\ ~sclosed[w]
    /\ loc[w].ack \notin {"NO", "none"}

\* that download announced the size of the upload s and sent its bytes
Delivered(w, s) ==
    /\ loc[w].ack = "READY"
    /\ loc[w].filesize = hist[s].size
    /\ loc[w].data = Bytes(s, 0, hist[s].size)

\* C1: for every file whose upload completed (the server received exactly the
\* declared number of bytes), a later download of it by any session delivers
\* the uploaded bytes, for a size of 0 and for a size of several chunks.
C1_RoundTrip ==
    \A w \in Workers, f \in FileNames :
        Answered(w, f) =>
            LET s == Last(Completed(f, loc[w].src))
            IN  s # 0 => Delivered(w, s)

\* C2: when the client disconnects (or falls silent) after declaring
\* filename|N and before sending N bytes, no FileRecord is written for that
\* upload and none of its bytes stay in storage; a FileRecord is only written
\* by an upload that reached received == filesize, with that size.
C2_NoPartialUpload ==
    /\ \A s \in Uploads :
          hist[s].status = "failed" =>
              /\ hist[s].at = 0
              /\ \A f \in FileNames : reg_src[f] # s /\ s \notin Sources(Stored(f))
    /\ \A f \in FileNames :
          InRegistry(f) =>
              /\ reg_src[f] # 0
              /\ hist[reg_src[f]].status = "complete"
              /\ Record(f).size = hist[reg_src[f]].size

\* an upload of 5000 declared bytes has failed: its client closed the
\* connection after a part of them
C2_Witness ==
    \E s \in Uploads :
        /\ hist[s].status = "failed" /\ hist[s].size = 5000
        /\ LET w == hist[s].by
           IN  /\ peer[w] = "closed" /\ pc[w] = "loop"
               /\ loc[w].src = s
               /\ loc[w].count > 0 /\ loc[w].count < 5000

\* C7: the same filename is uploaded twice, one upload after the other: the
\* File Registry holds one record for the name, with the uploader, the size
\* and the timestamp of the second upload, and a later download returns the
\* bytes of the second upload.
C7_SecondUploadWins ==
    \A f \in FileNames :
        LET s2 == Last(Attempts(f, ops + 1))
        IN  (Cardinality(Completed(f, ops + 1)) >= 2 /\ s2 \in Completed(f, ops + 1)) =>
                /\ Cardinality({i \in 1..Len(files_shared) : files_shared[i].filename = f}) = 1
                /\ Record(f) = [filename |-> f, uploader |-> name[hist[s2].by],
                                timestamp |-> hist[s2].at, size |-> hist[s2].size]
                /\ \A w \in Workers :
                      (Answered(w, f) /\ loc[w].src > s2) => Delivered(w, s2)

\* C8: two sessions upload the same filename concurrently and both uploads
\* complete (every upload of the name has completed, none is under way, no
\* connection has failed): the stored bytes are those of the upload whose
\* uploader and size are in the FileRecord, not a mixture of the two.
C8_LastWriterWins ==
    \A f \in FileNames :
        ( /\ Cardinality(Completed(f, ops + 1)) >= 2
          /\ Attempts(f, ops + 1) = Completed(f, ops + 1)
          /\ \A w \in FileWorkers :
                /\ pc[w] \notin {"up_meta", "up_data", "up_end"}
                /\ peer[w] = "open" /\ ~sclosed[w] )
        => LET s == reg_src[f]
           IN  /\ s \in Completed(f, ops + 1)
               /\ Record(f).uploader = name[hist[s].by]
               /\ Record(f).size = hist[s].size
               /\ Stored(f) = Bytes(s, 0, hist[s].size)

\* C9: a download request for a name that is not in the File Registry is
\* answered with "ERROR|File not found" and no file byte, and ends there: the
\* storage is not consulted, whether or not a file of that name lies in it.
C9_UnregisteredNotServed ==
    [][\A w \in Workers :
          ( /\ pc[w] = "dl_name"
            /\ loc'[w].filename # ""
            /\ ~InRegistry(loc'[w].filename) )
          => /\ out'[w] = DlErrorMsg("File not found")
             /\ pc'[w] = "loop"
             /\ fh'[w] = NoFile
             /\ loc'[w].data = <<>> /\ loc'[w].count = 0]_vars

\* a download was refused for a name that is not registered while a file of
\* that name, with bytes in it, lies in storage
C9_Witness ==
    \E w \in Workers :
        /\ out[w] = DlErrorMsg("File not found")
        /\ loc[w].kind = "/download"
        /\ ~InRegistry(loc[w].filename)
        /\ Exists(loc[w].filename) /\ Stored(loc[w].filename) # <<>>

\* ------------------------------------------------ broadcasts and transfers

\* C11: while a download is streamed to a session (from the reply
\* "OK|<filesize>" to the last file byte) nothing else is written to its
\* connection: the last step wrote nothing to it, or the OK reply, or file
\* bytes, never the payload of another worker's broadcast.
C11_NoInterleavedWrites ==
    \A w \in Workers :
        pc[w] \in {"dl_ack", "dl_send"} => out[w].t \in {"", "OK|", "data"}

\* the FileRecord of the name f once files_shared is fs
RecordIn(fs, f) == fs[CHOOSE i \in 1..Len(fs) : fs[i].filename = f]

C13_JoinNoticeToOthers ==
    [][\A w \in Workers :
          /\ (pc[w] = "join" /\ pc'[w] # "join") =>
                /\ Registered(w)
                /\ out'[w].t # "joined"
                /\ \A r \in Workers \ {w} : Registered(r) => out'[r] = JoinMsg(name[w])
          /\ (pc[w] = "welcome" /\ pc'[w] = "loop") => out'[w] = WelcomeMsg(name[w])]_vars

\* C14: whenever the worker of a registered session leaves its loop, for any
\* reason, the session is deregistered, its connection closed and a departure
\* notice broadcast: such a worker can take clients_lock for its finally
\* block and for the notice, and once it has ended the session is off the
\* registry, closed and announced; a session whose connection another
\* worker's broadcast closed is off the registry too.
C14_ExitDeregistersAndAnnounces ==
    \A w \in Workers :
        regno[w] > 0 =>
            /\ pc[w] \in {"finally", "leave"} => clients_lock = NoWorker
            /\ pc[w] = "done" => ~Registered(w) /\ sclosed[w] /\ left[w] = 1
            /\ (sclosed[w] /\ pc[w] \in InSession) => ~Registered(w)

\* a chat broadcast of worker w can write to w's own connection, and an
\* upload notification of worker v to v's own connection
ChatEchoes(w) == ENABLED (Chat(w) /\ out'[w].t = "chat")
NotifyEchoes(v) == ENABLED (UploadNotify(v) /\ out'[v].t = "[FILE]")

\* C15: the echo policy is uniform: the originator of a chat line is written
\* its own line exactly when the uploader is written its own "[FILE]"
\* notification (both registered, both connections sound, the lock free).
C15_UniformEcho ==
    \A w, v \in Workers :
        ( /\ pc[w] = "chat" /\ pc[v] = "up_notify"
          /\ Registered(w) /\ Registered(v)
          /\ peer[w] = "open" /\ ~sclosed[w]
          /\ peer[v] = "open" /\ ~sclosed[v]
          /\ clients_lock = NoWorker )
        => (ChatEchoes(w) <=> NotifyEchoes(v))

\* C16: an upload whose metadata payload is malformed (no pipe, more than one
\* pipe, a size that is no number) gets an "[ERROR]" reply and is aborted:
\* READY is not written, no byte is read as file data, no file is opened, the
\* storage and the File Registry are as before, and the worker is back in its
\* command loop with the session registered and its connection open.
C16_MalformedMetadataRejected ==
    [][\A w \in Workers :
          ( /\ pc[w] = "up_meta"
            /\ hist[loc[w].src].cause = ""
            /\ hist'[loc[w].src].cause \in BadMeta ) =>
                /\ out'[w].t = "[ERROR]"
                /\ out'[w].text \in {"Invalid file metadata", "Invalid file size"}
                /\ \A r \in Workers \ {w} : out'[r] = NoMsg
                /\ loc'[w].count = 0 /\ loc'[w].filename = ""
                /\ fh'[w] = NoFile
                /\ hist'[loc[w].src].status = "failed"
                /\ UNCHANGED <<files_shared, disk, inode>>
                /\ pc'[w] = "loop"
                /\ UNCHANGED <<clients, sclosed, peer>>
                /\ ~sclosed[w]]_vars

\* an upload of malformed metadata was refused while a.txt is registered and
\* stored, and the worker is back in its loop
C16_Witness ==
    \E w \in Workers :
        /\ pc[w] = "loop" /\ loc[w].kind = "/upload"
        /\ hist[loc[w].src].cause \in BadMeta
        /\ out[w] = ErrorMsg("Invalid file size")
        /\ InRegistry("a.txt") /\ Size(Stored("a.txt")) = 5000

\* C17: in a download no file byte is written before "OK|<filesize>" was
\* written and the literal READY read: the wait for the acknowledgment is
\* entered by writing the OK reply, the sending loop only from that wait and
\* with READY read and no byte sent yet, and file bytes are written only by
\* the sending loop; any other answer ends the download with no byte sent
\* and nothing written, the worker back in its command loop.
C17_NoByteBeforeReady ==
    [][\A w \in Workers :
          /\ (pc[w] # "dl_ack" /\ pc'[w] = "dl_ack") =>
                pc[w] = "dl_size" /\ out'[w] = DlOkMsg(loc'[w].filesize)
          /\ (pc[w] # "dl_send" /\ pc'[w] = "dl_send") =>
                /\ pc[w] = "dl_ack"
                /\ loc'[w].ack = "READY"
                /\ loc'[w].data = <<>> /\ out'[w].t # "data"
          /\ out'[w].t = "data" =>
                /\ pc[w] = "dl_send" /\ loc[w].ack = "READY"
                /\ loc'[w].data = Cat(loc[w].data, out'[w].data)
          /\ (loc'[w].data # <<>> /\ loc'[w].data # loc[w].data) => out'[w].t = "data"
          /\ (pc[w] = "dl_ack" /\ loc'[w] # loc[w] /\ loc'[w].ack # "READY") =>
                /\ pc'[w] = "loop"
                /\ out'[w] = NoMsg
                /\ loc'[w].data = <<>> /\ loc'[w].count = 0
                /\ UNCHANGED <<clients, sclosed>>]_vars

\* a download of 5000 advertised bytes was answered with something other
\* than READY: the worker is back in its loop and has sent no byte
C17_Witness ==
    \E w \in Workers :
        /\ pc[w] = "loop" /\ loc[w].kind = "/download"
        /\ loc[w].filesize = 5000 /\ loc[w].ack = "NO"
        /\ loc[w].data = <<>> /\ out[w] = NoMsg

\* C18: once "OK|<filesize>" was written and READY read, exactly the
\* advertised number of file bytes is written to the connection: a download
\* that has ended, on a connection that is sound at both ends, has sent
\* filesize bytes, whatever other sessions uploaded meanwhile.
C18_ExactlyFilesizeBytes ==
    \A w \in Workers :
        ( /\ pc[w] = "loop" /\ loc[w].kind = "/download"
          /\ loc[w].ack = "READY"
          /\ peer[w] = "open" /\ ~sclosed[w] )
        => Size(loc[w].data) = loc[w].filesize

C20_MissingFromStorage ==
    [][\A w \in Workers :
          ( /\ pc[w] = "dl_stat" /\ pc'[w] # "dl_stat"
            /\ InRegistry(loc[w].filename) /\ ~Exists(loc[w].filename)
            /\ peer[w] = "open" /\ ~sclosed[w] ) =>
                /\ out'[w].t = "ERROR|" /\ out'[w].text # ""
                /\ \A r \in Workers \ {w} : out'[r] = NoMsg
                /\ loc'[w].data = <<>> /\ loc'[w].count = 0 /\ loc'[w].ack = ""
                /\ fh'[w] = NoFile
                /\ pc'[w] = "loop"
                /\ UNCHANGED <<clients, sclosed, peer, files_shared, disk>>
                /\ Registered(w)]_vars

\* a download of the registered a.txt, whose file a failed upload removed,
\* was refused with the error reply
C20_Witness ==
    \E w \in Workers :
        /\ pc[w] = "loop" /\ loc[w].kind = "/download"
        /\ out[w] = DlErrorMsg("File not found on server")
        /\ InRegistry(loc[w].filename) /\ ~Exists(loc[w].filename)
        /\ loc[w].data = <<>>

\* ------------------------------------------------------ the receiving client

\* C21: the receiving client counts the bytes it received against the
\* advertised size, and when the stream ends before that size it treats the
\* download as incomplete and leaves no partial output file behind, the
\* console client and the GUI client alike.
C21_ClientDiscardsPartial ==
    (client.pc = "done" /\ client.eof /\ client.received < client.filesize) =>
        /\ client.verdict = "incomplete"
        /\ ~client.file.exists

\* ------------------------------------------------------------------ locking

\* C22: no worker sends or receives on a connection while it holds the
\* Session Registry lock (clients_lock) or the File Registry lock
\* (files_lock): the step just taken held no lock during its network calls.
C22_NoNetworkUnderLock == locks.io = {}

\* C23: no worker ever holds clients_lock and files_lock at the same time,
\* so it never holds both with a blocking call in between: the locks the
\* step just taken held at once are at most one of the two.
C23_LocksNeverNested ==
    /\ locks.most # WithClients \cup WithFiles
    /\ locks.io # WithClients \cup WithFiles

\* an upload was registered under files_lock and its notification has just
\* been broadcast under clients_lock alone
C23_Witness ==
    /\ locks.most = WithClients
    /\ \E w \in Workers :
          /\ out[w].t = "[FILE]"
          /\ InRegistry(out[w].text)

\* the message a worker broadcasts from each of its broadcasting steps
BroadcastKind(p) ==
    CASE p = "join" -> "joined" [] p = "chat" -> "chat" [] p = "leave" -> "left"
      [] OTHER -> "[FILE]"

\* C24: a call of broadcast(payload, exclude) writes the payload to every
\* session registered at the time of the call other than exclude (here:
\* every such session whose connection is sound at both ends), never to
\* exclude, and never to a session that is no longer registered.
C24_BroadcastReachesAll ==
    [][\A w \in Workers :
          (pc[w] \in {"join", "chat", "leave", "up_notify"} /\ pc'[w] # pc[w]) =>
              \A r \in Workers :
                  /\ ( /\ Registered(r) /\ ~(pc[w] = "up_notify" /\ r = w)
                       /\ peer[r] = "open" /\ ~sclosed[r] )
                     => out'[r].t = BroadcastKind(pc[w])
                  /\ (pc[w] = "up_notify" /\ r = w) => out'[r] = NoMsg
                  /\ ~Registered(r) => out'[r] = NoMsg]_vars

\* ---------------------------------------------------------- the data phase

\* C25: in the data phase of an upload the server never takes more than the
\* declared filesize bytes as file data: 0 <= received <= filesize at every
\* step from the READY reply on, and one read adds at most
\* min(4096, filesize - received) bytes.
C25_ReceivedWithinDeclared ==
    \A w \in Workers :
        pc[w] \in {"up_data", "up_end", "up_notify"} =>
            /\ 0 <= loc[w].count /\ loc[w].count <= loc[w].filesize
            /\ fh[w].ino # 0 => Size(fh[w].buf) + fh[w].pos = loc[w].count

\* ------------------------------------------------------ the session states

\* the state of the session of worker w: AWAITING_NAME until it is
\* registered, ACTIVE from the join notice to the end of the command loop,
\* CLOSED from the finally block on
AwaitingPcs == {"idle", "name", "reg"}
ClosedPcs == {"finally", "leave", "done"}
Phase(p) == IF p \in AwaitingPcs THEN 0 ELSE IF p \in ClosedPcs THEN 2 ELSE 1

\* C26: a worker moves only forward through AWAITING_NAME, ACTIVE, CLOSED;
\* the end of the worker is terminal; a session enters the registry only by
\* the registration step of its own worker, which it takes at most once, so
\* a session that has left the registry never enters it again.
C26_ForwardOnly ==
    [][\A w \in Workers :
          /\ (pc[w] # "cleanup_client" /\ pc'[w] # "cleanup_client") =>
                Phase(pc[w]) <= Phase(pc'[w])
          /\ pc[w] = "done" => pc'[w] = "done"
          /\ (~Registered(w) /\ \E i \in 1..Len(clients') : clients'[i] = w) =>
                pc[w] = "reg" /\ regno[w] = 0 /\ regno'[w] > 0
          /\ regno[w] > 0 => regno'[w] = regno[w]
          /\ Cardinality({i \in 1..Len(clients') : clients'[i] = w}) <= 1]_vars

\* a session has gone through all three states and is off the registry
\* while another session is in its command loop
C26_Witness ==
    \E w, v \in Workers :
        /\ pc[w] = "done" /\ regno[w] > 0 /\ ~Registered(w)
        /\ pc[v] = "loop" /\ Registered(v)

\* ---------------------------------------------------- claims C27 to C30

\* the words of a payload: what is left of it without its blanks
Words(p) == {p[i] : i \in {j \in 1..Len(p) : p[j] \notin Whitespace}}

C28_NoTimeoutInChatLoop ==
    \A w \in Workers : pc[w] = "loop" => timeout[w] = None

\* a worker is back in the command loop after a transfer that ended on a
\* timeout or a closed connection, another after one that ran to its end
C28_Witness ==
    \E w, v \in Workers :
        /\ pc[w] = "loop" /\ timeout[w] = None
        /\ \E s \in Uploads : hist[s].by = w /\ hist[s].status = "failed" /\ hist[s].cause = "timeout"
        /\ pc[v] = "loop" /\ timeout[v] = None
        /\ \E s \in Uploads : hist[s].by = v /\ hist[s].status = "complete" /\ hist[s].cause = ""

\* C29: a payload of the command loop that is empty after trimming is
\* ignored: nothing is written to any connection, the worker stays in the
\* loop, and the registry, the names, the connections, the shared files and
\* the timeouts are as before; a zero-length read takes the worker out of
\* the loop into the finally block (CLOSED), whatever the state.
C29_BlankIgnoredEofEnds ==
    [][\A w \in Workers :
          (pc[w] = "loop" /\ payload'.by = w) =>
              /\ (payload'.raw # <<>> /\ Words(payload'.raw) = {}) =>
                    /\ out' = Quiet
                    /\ pc' = pc
                    /\ UNCHANGED <<clients, name, clients_lock, peer, sclosed, left,
                                   regno, bye, files_shared, disk, inode, fh, hist,
                                   reg_src, timeout>>
                    /\ text'[w] = ""
                    /\ locks' = NoLocks
              /\ payload'.raw = <<>> => pc'[w] = "finally"]_vars

\* a session has just sent a payload of blanks and waits in the loop, beside
\* another registered session
C29_Witness ==
    \E w, v \in Workers :
        /\ w # v /\ Registered(w) /\ Registered(v)
        /\ pc[w] = "loop" /\ pc[v] = "loop"
        /\ payload.by = w /\ payload.raw # <<>> /\ Words(payload.raw) = {}
        /\ out = Quiet

\* the six commands, as the specification lists them
C30_SixCommands == {"/quit", "/users", "/files", "/upload", "/download", "/help"}

C31_NoMutationWhileIterating ==
    [][/\ clients' # clients =>
              /\ clients_lock = NoWorker
              /\ "clients_lock" \in locks'.most
              /\ \A w \in Workers : pc[w] # "cleanup_client"
       /\ \A w \in Workers :
              (pc[w] \in {"users", "join", "chat", "leave", "up_notify"} /\ pc'[w] # pc[w]) =>
                  "clients_lock" \in locks'.most]_vars

\* a worker stands inside the loop of broadcast, holding clients_lock, while
\* the worker of a registered session waits in its finally block to
\* deregister it
C31_Witness ==
    \E w, v \in Workers :
        /\ pc[w] = "cleanup_client" /\ clients_lock = w
        /\ pc[v] = "finally" /\ Registered(v)

\* the states of handle_file_download
DownloadPcs == {"dl_name", "dl_stat", "dl_size", "dl_ack", "dl_send"}

\* C32: no step of a download, from the /download command to its return
\* (unknown name, file missing from storage, refused or missing
\* acknowledgment, timeout, send error, success), changes the File Registry,
\* the paths of the storage directory or the bytes of a stored file.
C32_DownloadChangesNothing ==
    [][\A w \in Workers :
          ( \/ pc[w] \in DownloadPcs /\ (pc'[w] # pc[w] \/ loc'[w] # loc[w])
            \/ pc[w] = "loop" /\ pc'[w] \in DownloadPcs ) =>
              /\ files_shared' = files_shared
              /\ disk' = disk
              /\ \A f \in FileNames :
                    disk[f] # 0 => inode'[disk[f]] = inode[disk[f]]]_vars

\* a download has sent all 5000 bytes of a registered and stored file and
\* has returned to the command loop
C32_Witness ==
    \E w \in Workers :
        /\ pc[w] = "loop" /\ loc[w].kind = "/download"
        /\ loc[w].ack = "READY" /\ loc[w].count = 5000
        /\ InRegistry(loc[w].filename) /\ Exists(loc[w].filename)
        /\ Size(inode[disk[loc[w].filename]]) = 5000

\* an upload under the name f has opened its file and has not returned yet
UploadInProgress(f) ==
    \E w \in Workers : pc[w] \in {"up_data", "up_end", "up_notify"} /\ loc[w].filename = f

\* C33: whenever no upload of a name is in progress, a FileRecord of that
\* name has a stored file of that name, of the recorded size.
C33_RegistryMatchesStorage ==
    \A f \in FileNames :
        (InRegistry(f) /\ ~UploadInProgress(f)) =>
            /\ Exists(f)
            /\ Size(Stored(f)) = Record(f).size

\* C34: no step of an upload that declared a negative size (the step that
\* reads the metadata, the step after the empty data phase) changes the
\* File Registry, the path of a file stored before, or its bytes.
C34_NegativeSizeChangesNothing ==
    [][\A w \in Workers :
          ( \/ pc[w] = "up_meta" /\ pc'[w] = "up_end" /\ loc'[w].filesize < 0
            \/ pc[w] = "up_end" /\ pc'[w] # "up_end" /\ loc[w].filesize < 0 ) =>
              /\ files_shared' = files_shared
              /\ \A f \in FileNames :
                    disk[f] # 0 =>
                        /\ disk'[f] = disk[f]
                        /\ inode'[disk[f]] = inode[disk[f]]]_vars

\* C35: a name that is in the File Registry stays in it through every step,
\* the registry never gets shorter, and the FileRecord of a name changes
\* only in the step in which a worker whose upload of that name has received
\* exactly the declared number of bytes stores its own record.
C35_RegistryOnlyGrows ==
    [][/\ Len(files_shared') >= Len(files_shared)
       /\ \A f \in FileNames :
             InRegistry(f) =>
                 /\ \E i \in 1..Len(files_shared') : files_shared'[i].filename = f
                 /\ RecordIn(files_shared', f) # Record(f) =>
                       \E w \in Workers :
                           /\ pc[w] = "up_end" /\ pc'[w] # "up_end"
                           /\ loc[w].filename = f
                           /\ loc[w].count = loc[w].filesize
                           /\ RecordIn(files_shared', f).uploader = name[w]
                           /\ RecordIn(files_shared', f).size = loc[w].filesize]_vars

\* the record of a.txt is the one a later completed upload put in place of
\* the first, and it is still there after a yet later upload of a.txt failed
\* and took the file from storage
C35_Witness ==
    /\ InRegistry("a.txt") /\ reg_src["a.txt"] > 1
    /\ ~Exists("a.txt")
    /\ \E s \in Uploads :
          s > reg_src["a.txt"] /\ hist[s].filename = "a.txt" /\ hist[s].status = "failed"

\* the place of the broadcast k in what session r has received
Place(r, k) == CHOOSE i \in 1..Len(fan.rcvd[r]) : fan.rcvd[r][i] = k
Got(r, k) == \E i \in 1..Len(fan.rcvd[r]) : fan.rcvd[r][i] = k

\* C36: two sessions that have both received the same two broadcasts have
\* received them in the same order.
C36_SameOrderEverywhere ==
    \A r1, r2 \in Workers : \A a, b \in 1..MaxBroadcasts :
        (a # b /\ Got(r1, a) /\ Got(r1, b) /\ Got(r2, a) /\ Got(r2, b)) =>
            (Place(r1, a) < Place(r1, b) <=> Place(r2, a) < Place(r2, b))

\* two workers have each called broadcast, and two sessions have both
\* received the first two broadcasts
C36_Witness ==
    \E r1, r2 \in Workers :
        /\ r1 # r2
        /\ fan.msg[r1] > 0 /\ fan.msg[r2] > 0
        /\ Got(r1, 1) /\ Got(r1, 2) /\ Got(r2, 1) /\ Got(r2, 2)

\* worker w is inside handle_file_upload or handle_file_download: at one of
\* their steps, or inside the broadcast of the upload notification
InTransfer(w) ==
    \/ pc[w] \in TransferPcs
    \/ pc[w] = "cleanup_client" /\ loc[w].kind = "/upload" /\ left[w] = 0

\* C37: a worker inside an upload or a download always has a step to take
\* (the peer's bytes, the end of the stream, or the timeout that fires when
\* the peer stays silent), so no transfer stands still for ever.
C37_TransferGoesOn ==
    \A w \in FileWorkers : InTransfer(w) => ENABLED Transfer(w)

\* C38: at most one thread of the GUI client is inside sock.recv, a thread
\* inside sock.recv holds receive_lock, and receive_lock is held only by a
\* thread that stands inside its locked block: a transfer thread that has
\* left its block, by whatever way, has released the lock, so an attempt of
\* the receive loop to take it then succeeds.
C38_OneReaderAtATime ==
    /\ Cardinality(gui.reading) <= 1
    /\ \A t \in gui.reading : gui.receive_lock = t /\ gui.at[t] = "recv"
    /\ gui.receive_lock # "" => gui.at[gui.receive_lock] \in {"send", "recv"}
    /\ (\A t \in GuiThreads : gui.at[t] \notin {"send", "recv"}) => gui.receive_lock = ""

\* a transfer thread has left its block on a timeout, the receive loop is
\* back inside sock.recv with the lock, and the other transfer thread waits
\* for the lock
C38_Witness ==
    /\ gui.how = "timeout"
    /\ gui.at["receive_messages"] = "recv" /\ gui.receive_lock = "receive_messages"
    /\ gui.reading = {"receive_messages"}
    /\ \E t \in GuiThreads : gui.at[t] = "with"

=============================================================================
